---- MODULE Spec2Model ----
(***************************************************************************)
(* tap-dataverse, DataverseTableStream (src/tap_dataverse/streams.py).     *)
(*                                                                         *)
(* Text is a sequence of tokens (TLA+ strings); "&", "=" and the percent   *)
(* escapes are tokens of their own, so that splitting, joining, quoting    *)
(* and unquoting are computed as the code computes them.  A timestamp text *)
(* is one token; pendulum.parse and strftime are tables over those tokens. *)
(* Time is counted in whole hours of one day.                              *)
(***************************************************************************)
EXTENDS Integers, Sequences, FiniteSets, TLC

VARIABLES
    replication_key,               \* self.replication_key ("" when not configured)
    is_timestamp_replication_key,  \* schema type of the replication key
    start_date,                    \* self.start_date
    custom_query_params,           \* self.custom_query_params
    page_size,                     \* rows the server puts in one response
    bookmark,                      \* StateStore: persisted replication_key_value
    starting_value,                \* value read from the StateStore at sync start
    pc,                            \* position of the sync pass
    next_page_token,               \* query component of the continuation token
    params,                        \* parameter set of the latest request
    request_token,                 \* token the latest request was built with
    response_token,                \* token carried by the latest response
    pending,                       \* rows of the latest response not yet emitted
    emitted,                       \* rows emitted by the current pass
    prev_emitted,                  \* rows emitted by the previous pass
    prev_outcome,                  \* how the previous pass ended
    fetches,                       \* requests issued by the current pass
    runs                           \* sync passes started

vars == <<replication_key, is_timestamp_replication_key, start_date,
          custom_query_params, page_size, bookmark, starting_value, pc,
          next_page_token, params, request_token, response_token, pending,
          emitted, prev_emitted, prev_outcome, fetches, runs>>

config == <<replication_key, is_timestamp_replication_key, start_date,
            custom_query_params, page_size>>

(***************************************************************************)
(* Python values                                                           *)
(***************************************************************************)
None == <<"<None>">>

NoParams == [k \in {} |-> <<>>]

Truthy(s) == s # None /\ s # <<>>

Contains(s, tok) == \E i \in 1..Len(s) : s[i] = tok

IndexOf(s, tok) == CHOOSE i \in 1..Len(s) : s[i] = tok /\ \A j \in 1..(i-1) : s[j] # tok

\* F applied to the value of v, which is computed once.
Eval(v, F(_)) == CHOOSE r \in {F(x) : x \in {v}} : TRUE

\* str.split(sep): the pieces between consecutive separators, in order.
Split(s, sep) ==
    LET cuts == {0} \cup {i \in 1..Len(s) : s[i] = sep}
        CutEnd(a) == IF \E b \in cuts : b > a
                     THEN CHOOSE b \in cuts : b > a /\ \A c \in cuts : c > a => b <= c
                     ELSE Len(s) + 1
        Cut(n) == CHOOSE a \in cuts : Cardinality({b \in cuts : b < a}) = n - 1
    IN  [n \in 1..Cardinality(cuts) |-> SubSeq(s, Cut(n) + 1, CutEnd(Cut(n)) - 1)]

\* str.split(sep, 1) of a text that contains sep
SplitOnce(s, sep) ==
    <<SubSeq(s, 1, IndexOf(s, sep) - 1), SubSeq(s, IndexOf(s, sep) + 1, Len(s))>>

DictSet(d, k, v) == [x \in (DOMAIN d) \cup {k} |-> IF x = k THEN v ELSE d[x]]

(***************************************************************************)
(* Timestamps                                                              *)
(***************************************************************************)
\* Texts pendulum.parse accepts: wall-clock hour and UTC offset in hours.
TimestampTexts ==
    { [text |-> "2024-01-01",    wall |-> 0, off |-> 0],
      [text |-> "01:00Z",        wall |-> 1, off |-> 0],
      [text |-> "02:00Z",        wall |-> 2, off |-> 0],
      [text |-> "03:00Z",        wall |-> 3, off |-> 0],
      [text |-> "04:00Z",        wall |-> 4, off |-> 0],
      [text |-> "02:00+01:00",   wall |-> 2, off |-> 1],
      [text |-> "00:00.000000Z", wall |-> 0, off |-> 0],
      [text |-> "01:00.000000Z", wall |-> 1, off |-> 0],
      [text |-> "02:00.000000Z", wall |-> 2, off |-> 0],
      [text |-> "03:00.000000Z", wall |-> 3, off |-> 0],
      [text |-> "04:00.000000Z", wall |-> 4, off |-> 0] }

Parses(s) == Len(s) = 1 /\ \E e \in TimestampTexts : e.text = s[1]

\* pendulum.parse(text) of a text it accepts
pendulum_parse(s) ==
    LET e == CHOOSE e \in TimestampTexts : e.text = s[1]
    IN  [wall |-> e.wall, off |-> e.off]

\* timestamp.strftime("%Y-%m-%dT%H:%M:%S.%fZ"): the wall-clock fields, then
\* a literal Z; the offset is not applied.
strftime(ts) ==
    << <<"00:00.000000Z", "01:00.000000Z", "02:00.000000Z",
         "03:00.000000Z", "04:00.000000Z">>[ts.wall + 1] >>

\* The instant a timestamp denotes, in hours UTC.
Instant(ts) == ts.wall - ts.off

(***************************************************************************)
(* get_starting_timestamp                                                  *)
(***************************************************************************)
Returned(ts) == [kind |-> "return", ts |-> ts]
ReturnedNone == [kind |-> "none", ts |-> [wall |-> 0, off |-> 0]]
Raised == [kind |-> "raise", ts |-> [wall |-> 0, off |-> 0]]

get_starting_timestamp(value, key_is_timestamp, sd) ==
    IF value = None /\ Truthy(sd)
    THEN IF Parses(sd) THEN Returned(pendulum_parse(sd)) ELSE ReturnedNone
    ELSE IF value # None
         THEN IF ~key_is_timestamp THEN Raised
              ELSE IF Parses(value) THEN Returned(pendulum_parse(value))
                   ELSE Raised
         ELSE ReturnedNone

(***************************************************************************)
(* get_url_params                                                          *)
(***************************************************************************)
\* last_run_date where the except branch falls back to start_date alone.
last_run_date_start_date(value, key_is_timestamp, sd) ==
    LET r == get_starting_timestamp(value, key_is_timestamp, sd)
    IN  IF r.kind = "return" THEN strftime(r.ts)
        ELSE IF Truthy(sd) THEN sd ELSE None

\* The try/except that opens get_url_params.
last_run_date(value, key_is_timestamp, sd) ==
    LET r == get_starting_timestamp(value, key_is_timestamp, sd)
    IN  IF r.kind = "return" THEN strftime(r.ts)
        ELSE IF r.kind = "none" THEN (IF Truthy(sd) THEN sd ELSE None)
        ELSE IF value = None /\ Truthy(sd) THEN sd ELSE value

\* f"{self.replication_key} asc"
OrderByClause(rk) == rk \o <<" asc">>

\* f"{self.replication_key} ge {last_run_date}"
FilterClause(rk, bound) == rk \o <<" ge ">> \o bound

\* f"({params['$filter']}) and ({value})"
AndClause(a, b) == <<"(">> \o a \o <<") and (">> \o b \o <<")">>

\* replication_params with the filter clause forgotten.
replication_params_unfiltered(rk, lrd) ==
    IF Truthy(rk) THEN (<<"$orderby">> :> OrderByClause(rk)) ELSE NoParams

replication_params(rk, lrd) ==
    IF Truthy(rk)
    THEN IF Truthy(lrd)
         THEN (<<"$orderby">> :> OrderByClause(rk))
              @@ (<<"$filter">> :> FilterClause(rk, lrd))
         ELSE (<<"$orderby">> :> OrderByClause(rk))
    ELSE NoParams

\* merge_custom_param where a custom $filter replaces the computed one.
merge_custom_param_overwrite(p, param) ==
    IF Contains(param, "=")
    THEN DictSet(p, SplitOnce(param, "=")[1], SplitOnce(param, "=")[2])
    ELSE p

\* One turn of the loop over custom_query_params.split("&").
merge_custom_param(p, param) ==
    IF Contains(param, "=")
    THEN LET key == SplitOnce(param, "=")[1]
             value == SplitOnce(param, "=")[2]
         IN  IF key = <<"$filter">> /\ <<"$filter">> \in DOMAIN p
             THEN DictSet(p, key, AndClause(p[<<"$filter">>], value))
             ELSE DictSet(p, key, value)
    ELSE p

\* The loop, from piece i on.
RECURSIVE merge_custom_from(_, _, _)
merge_custom_from(p, pieces, i) ==
    IF i > Len(pieces) THEN p
    ELSE Eval(merge_custom_param(p, pieces[i]),
              LAMBDA q : merge_custom_from(q, pieces, i + 1))

merge_custom_params(p, custom) ==
    IF Truthy(custom)
    THEN Eval(Split(custom, "&"), LAMBDA pieces : merge_custom_from(p, pieces, 1))
    ELSE p

\* urllib.parse.unquote after replace("+", " "), token by token.
UnquoteToken(tok) ==
    CASE tok = "%3D" -> "="
      [] tok = "%26" -> "&"
      [] tok = "+" -> " "
      [] tok = "%24filter" -> "$filter"
      [] tok = "%24orderby" -> "$orderby"
      [] tok = "%24skiptoken" -> "$skiptoken"
      [] OTHER -> tok

Unquote(s) == [i \in 1..Len(s) |-> UnquoteToken(s[i])]

\* urllib.parse.parse_qsl(query): blank values are dropped.
KeptPair(nv) == Contains(nv, "=") /\ SplitOnce(nv, "=")[2] # <<>>

DecodedPair(nv) == <<Unquote(SplitOnce(nv, "=")[1]), Unquote(SplitOnce(nv, "=")[2])>>

parse_qsl(query) ==
    Eval(SelectSeq(Split(query, "&"), KeptPair),
         LAMBDA kept : [i \in 1..Len(kept) |-> DecodedPair(kept[i])])

\* d.update(pairs): a later pair replaces an earlier one with the same key.
dict_update(d, pairs) ==
    LET keys == {pairs[i][1] : i \in 1..Len(pairs)}
        Last(k) == CHOOSE i \in 1..Len(pairs) :
                       pairs[i][1] = k /\ \A j \in (i+1)..Len(pairs) : pairs[j][1] # k
    IN  [k \in (DOMAIN d) \cup keys |-> IF k \in keys THEN pairs[Last(k)][2] ELSE d[k]]

dict(pairs) == dict_update(NoParams, pairs)

\* get_url_params where the token's parameters are added to the built ones.
get_url_params_merged(rk, key_is_timestamp, sd, custom, value, token) ==
    LET lrd == last_run_date(value, key_is_timestamp, sd)
        built == merge_custom_params(replication_params(rk, lrd), custom)
    IN  IF token # None
        THEN Eval(parse_qsl(token), LAMBDA pairs : dict_update(built, pairs))
        ELSE built

\* get_url_params where the token is dropped.
get_url_params_tokenless(rk, key_is_timestamp, sd, custom, value, token) ==
    LET lrd == last_run_date(value, key_is_timestamp, sd)
    IN  merge_custom_params(replication_params(rk, lrd), custom)

get_url_params(rk, key_is_timestamp, sd, custom, value, token) ==
    LET lrd == last_run_date(value, key_is_timestamp, sd)
        built == merge_custom_params(replication_params(rk, lrd), custom)
    IN  IF token # None THEN Eval(parse_qsl(token), dict) ELSE built

(***************************************************************************)
(* The remote table and the HTTP collaborator                              *)
(***************************************************************************)
\* Replication-key hour of each remote row, by row id (creation order).
RemoteKeys == <<2, 3, 1>>

RowIds == 1..Len(RemoteKeys)

\* The replication-key text a row carries in a response body.
KeyText(id) == << <<"01:00Z", "02:00Z", "03:00Z", "04:00Z">>[RemoteKeys[id]] >>

SkipTexts == <<"1", "2", "3", "4", "5", "6", "7", "8">>

\* The bound of the "<key> ge <bound>" clause of a $filter value, if any.
HasFloor(p) ==
    /\ <<"$filter">> \in DOMAIN p
    /\ \E i \in 1..(Len(p[<<"$filter">>]) - 1) : p[<<"$filter">>][i] = " ge "

FloorText(p) ==
    LET f == p[<<"$filter">>]
    IN  << f[IndexOf(f, " ge ") + 1] >>

\* The server answers 400 to a filter bound that is no timestamp.
BadRequest(p) == HasFloor(p) /\ ~Parses(FloorText(p))

Selected(p, id) ==
    HasFloor(p) => RemoteKeys[id] >= Instant(pendulum_parse(FloorText(p)))

\* How the server orders the rows: by the $orderby value it understands,
\* otherwise by row id.
Before(p, a, b) ==
    IF <<"$orderby">> \in DOMAIN p /\ p[<<"$orderby">>] = <<"modifiedon", " asc">>
    THEN RemoteKeys[a] < RemoteKeys[b] \/ (RemoteKeys[a] = RemoteKeys[b] /\ a < b)
    ELSE IF <<"$orderby">> \in DOMAIN p /\ p[<<"$orderby">>] = <<"modifiedon", " desc">>
    THEN RemoteKeys[a] > RemoteKeys[b] \/ (RemoteKeys[a] = RemoteKeys[b] /\ a < b)
    ELSE a < b

Ordered(p, ids) ==
    [n \in 1..Cardinality(ids) |->
        CHOOSE a \in ids : Cardinality({b \in ids : Before(p, b, a)}) = n - 1]

ResultRows(p) == Eval({id \in RowIds : Selected(p, id)}, LAMBDA ids : Ordered(p, ids))

Skip(p) ==
    IF <<"$skiptoken">> \in DOMAIN p
    THEN CHOOSE n \in 1..Len(SkipTexts) : <<SkipTexts[n]>> = p[<<"$skiptoken">>]
    ELSE 0

ResponseRows(p, size) ==
    LET rows == ResultRows(p)
        last == IF Skip(p) + size < Len(rows) THEN Skip(p) + size ELSE Len(rows)
    IN  SubSeq(rows, Skip(p) + 1, last)

HasMore(p, size) == Skip(p) + size < Len(ResultRows(p))

\* urllib-style quoting of the characters that delimit a query string.
QuoteToken(tok) ==
    CASE tok = "=" -> "%3D"
      [] tok = "&" -> "%26"
      [] OTHER -> tok

Quote(s) == [i \in 1..Len(s) |-> QuoteToken(s[i])]

RECURSIVE EncodeQuery(_, _)
EncodeQuery(p, keys) ==
    IF keys = {} THEN <<>>
    ELSE Eval(CHOOSE k \in keys : TRUE,
              LAMBDA k : Quote(k) \o <<"=">> \o Quote(p[k]) \o <<"&">>
                         \o Eval(keys \ {k}, LAMBDA rest : EncodeQuery(p, rest)))

\* The query component of @odata.nextLink: the request's own query options
\* and the position to continue from.
NextLinkQuery(p, size) ==
    EncodeQuery(p, (DOMAIN p) \ {<<"$skiptoken">>})
    \o <<"$skiptoken", "=", SkipTexts[Skip(p) + size]>>

ResponseToken(p, size) == IF HasMore(p, size) THEN NextLinkQuery(p, size) ELSE None

(***************************************************************************)
(* Stream properties and the record path                                   *)
(***************************************************************************)
replication_method ==
    IF Truthy(replication_key) THEN "INCREMENTAL" ELSE "FULL_TABLE"

is_sorted == replication_method = "INCREMENTAL"

\* extract_jsonpath("$.value[*]", body): every element of the value array,
\* nothing when the array is absent.
parse_response(body) ==
    IF "value" \in DOMAIN body THEN body["value"] ELSE <<>>

\* The bodies the server may send for a page of rows.
ResponseBodies(rows) ==
    IF rows = <<>>
    THEN { [value |-> <<>>], [context |-> <<>>] }
    ELSE { [value |-> rows] }

\* Python's order on the replication-key texts that can meet in the state.
TextOrder == <<"01:00Z", "02:00+01:00", "02:00Z", "03:00Z", "04:00Z", "garbage">>

TextRank(s) == CHOOSE n \in 1..Len(TextOrder) : TextOrder[n] = s[1]

(***************************************************************************)
(* Inputs                                                                  *)
(***************************************************************************)
MaxRuns == 2

MaxFetches == 4

PageSizes == {1, 2}

ReplicationKeys == { <<>>, <<"modifiedon">> }

StartDates == { <<>>, <<"2024-01-01">>, <<"02:00+01:00">>, <<"garbage">> }

StoredValues == { None, <<"02:00Z">>, <<"04:00Z">>, <<"02:00+01:00">>, <<"garbage">> }

CustomQueryParams ==
    { <<>>,
      <<"$filter", "=", "statecode eq 0">>,
      <<"$select", "=", "name", "&", "$filter", "=", "a", "=", "b">>,
      <<"$orderby", "=", "createdon", " desc">>,
      <<"$orderby", "=", "modifiedon", " desc">>,
      <<"$top", "&", "$expand", "=", "owner">> }

TokenInputs ==
    { None,
      <<>>,
      <<"%24skiptoken", "=", "2">>,
      <<"$filter", "=", "modifiedon", " ge ", "01:00.000000Z", "&",
        "$skiptoken", "=", "2", "&", "$count", "=">>,
      <<"$select", "=", "a", "%3D", "b", "&", "$select", "=", "name", "&", "flag">> }

ConfigInit ==
    /\ replication_key \in ReplicationKeys
    /\ is_timestamp_replication_key \in
           (IF Truthy(replication_key) THEN BOOLEAN ELSE {FALSE})
    /\ start_date \in StartDates
    /\ custom_query_params \in CustomQueryParams
    /\ page_size \in PageSizes

IdleInit ==
    /\ pc = "IDLE"
    /\ params = NoParams
    /\ request_token = None
    /\ response_token = None
    /\ pending = <<>>
    /\ emitted = <<>>
    /\ prev_emitted = <<>>
    /\ prev_outcome = "IDLE"
    /\ fetches = 0
    /\ runs = 0

(***************************************************************************)
(* One call of get_url_params on arbitrary inputs                          *)
(***************************************************************************)
ParamInit ==
    /\ ConfigInit
    /\ IdleInit
    /\ bookmark \in (IF Truthy(replication_key) THEN StoredValues ELSE {None})
    /\ starting_value = bookmark
    /\ next_page_token \in TokenInputs

BuildParams ==
    /\ pc = "IDLE"
    /\ pc' = "BUILT"
    /\ params' = get_url_params(replication_key, is_timestamp_replication_key,
                                start_date, custom_query_params,
                                starting_value, next_page_token)
    /\ request_token' = next_page_token
    /\ UNCHANGED <<config, bookmark, starting_value, next_page_token,
                   response_token, pending, emitted, prev_emitted,
                   prev_outcome, fetches, runs>>

ParamNext == BuildParams

ParamSpec == ParamInit /\ [][ParamNext]_vars

(***************************************************************************)
(* The sync pass                                                           *)
(***************************************************************************)
Init ==
    /\ ConfigInit
    /\ IdleInit
    /\ bookmark \in (IF Truthy(replication_key) THEN StoredValues ELSE {None})
    /\ starting_value = None
    /\ next_page_token = None

Running == {"FIRST_PAGE", "NEXT_PAGE", "EMITTING"}

Ended == {"DONE", "FETCH_FAILED", "SORT_FAILED"}

\* A sync invocation starts: the StateStore is read once.
StartSync ==
    /\ pc \in Ended \cup {"IDLE"}
    /\ runs < MaxRuns
    /\ runs' = runs + 1
    /\ pc' = "FIRST_PAGE"
    /\ starting_value' = bookmark
    /\ next_page_token' = None
    /\ request_token' = None
    /\ response_token' = None
    /\ params' = NoParams
    /\ pending' = <<>>
    /\ prev_emitted' = emitted
    /\ prev_outcome' = pc
    /\ emitted' = <<>>
    /\ fetches' = 0
    /\ UNCHANGED <<config, bookmark>>

\* One request: the parameters are built, the server answers, the records
\* are extracted.
Request ==
    /\ pc \in {"FIRST_PAGE", "NEXT_PAGE"}
    /\ fetches < MaxFetches
    /\ \E p \in {get_url_params(replication_key, is_timestamp_replication_key,
                                 start_date, custom_query_params,
                                 starting_value, next_page_token)} :
           /\ params' = p
           /\ request_token' = next_page_token
           /\ fetches' = fetches + 1
           /\ IF BadRequest(p)
              THEN /\ pc' = "FETCH_FAILED"
                   /\ UNCHANGED <<next_page_token, response_token, pending>>
              ELSE /\ pc' = "EMITTING"
                   /\ response_token' = ResponseToken(p, page_size)
                   /\ next_page_token' = response_token'
                   /\ \E body \in ResponseBodies(ResponseRows(p, page_size)) :
                          pending' = parse_response(body)
    /\ UNCHANGED <<config, bookmark, starting_value, emitted, prev_emitted,
                   prev_outcome, runs>>

\* One request that the transport fails to deliver.
FetchFailure ==
    /\ pc \in {"FIRST_PAGE", "NEXT_PAGE"}
    /\ fetches < MaxFetches
    /\ params' = get_url_params(replication_key, is_timestamp_replication_key,
                                start_date, custom_query_params,
                                starting_value, next_page_token)
    /\ request_token' = next_page_token
    /\ fetches' = fetches + 1
    /\ pc' = "FETCH_FAILED"
    /\ UNCHANGED <<config, bookmark, starting_value, next_page_token,
                   response_token, pending, emitted, prev_emitted,
                   prev_outcome, runs>>

\* increment_state without the comparison with the stored value.
increment_state_unchecked(old, new, sorted) == [value |-> new, raised |-> FALSE]

\* The StateStore's per-record write for an incremental stream.
increment_state(old, new, sorted) ==
    IF old = None \/ TextRank(new) >= TextRank(old)
    THEN [value |-> new, raised |-> FALSE]
    ELSE [value |-> old, raised |-> sorted]

\* One record is forwarded downstream and the bookmark advanced.
EmitRecord ==
    /\ pc = "EMITTING"
    /\ pending # <<>>
    /\ pending' = Tail(pending)
    /\ emitted' = Append(emitted, Head(pending))
    /\ IF replication_method = "INCREMENTAL"
       THEN LET r == increment_state(bookmark, KeyText(Head(pending)), is_sorted)
            IN  /\ bookmark' = r.value
                /\ pc' = IF r.raised THEN "SORT_FAILED" ELSE pc
       ELSE UNCHANGED <<bookmark, pc>>
    /\ UNCHANGED <<config, starting_value, next_page_token, params,
                   request_token, response_token, prev_emitted, prev_outcome,
                   fetches, runs>>

\* The page is exhausted: page on if the response carried a token.
Advance ==
    /\ pc = "EMITTING"
    /\ pending = <<>>
    /\ pc' = IF next_page_token # None THEN "NEXT_PAGE" ELSE "DONE"
    /\ UNCHANGED <<config, bookmark, starting_value, next_page_token, params,
                   request_token, response_token, pending, emitted,
                   prev_emitted, prev_outcome, fetches, runs>>

Next == StartSync \/ Request \/ FetchFailure \/ EmitRecord \/ Advance

Spec == Init /\ [][Next]_vars

\* The pass is one sequential loop: a step it can take, it takes.
FairSpec == Spec /\ WF_vars(Request) /\ WF_vars(EmitRecord) /\ WF_vars(Advance)

(***************************************************************************)
(* Properties                                                              *)
(***************************************************************************)
Built == pc = "BUILT"

FirstPageBuilt == Built /\ request_token = None

OrderBy == <<"$orderby">>

Filter == <<"$filter">>

\* A timestamp rendered in UTC with microsecond precision and a trailing Z.
UtcText(ts) == strftime([wall |-> Instant(ts), off |-> 0])

CustomPieces == IF Truthy(custom_query_params) THEN Split(custom_query_params, "&") ELSE <<>>

IsPair(piece) == Contains(piece, "=")

PieceKey(piece) == SubSeq(piece, 1, IndexOf(piece, "=") - 1)

PieceValue(piece) == SubSeq(piece, IndexOf(piece, "=") + 1, Len(piece))

\* The last custom pair with key k, if any.
HasCustom(k) ==
    \E i \in 1..Len(CustomPieces) : IsPair(CustomPieces[i]) /\ PieceKey(CustomPieces[i]) = k

LastCustom(k) ==
    LET i == CHOOSE i \in 1..Len(CustomPieces) :
                 /\ IsPair(CustomPieces[i]) /\ PieceKey(CustomPieces[i]) = k
                 /\ \A j \in (i+1)..Len(CustomPieces) :
                        ~(IsPair(CustomPieces[j]) /\ PieceKey(CustomPieces[j]) = k)
    IN  PieceValue(CustomPieces[i])

\* Every entry of p is the decoded form of a pair among pieces.
FromPairs(p, pieces) ==
    \A k \in DOMAIN p :
        \E i \in 1..Len(pieces) :
            /\ IsPair(pieces[i])
            /\ Unquote(PieceKey(pieces[i])) = k
            /\ Unquote(PieceValue(pieces[i])) = p[k]

NonBlank(piece) == IsPair(piece) /\ PieceValue(piece) # <<>>

\* Every non-blank pair among pieces is in p, the last one for its key.
HoldsPairs(p, pieces) ==
    \A i \in 1..Len(pieces) :
        NonBlank(pieces[i]) =>
            /\ Unquote(PieceKey(pieces[i])) \in DOMAIN p
            /\ (\A j \in (i+1)..Len(pieces) :
                    ~( /\ NonBlank(pieces[j])
                       /\ Unquote(PieceKey(pieces[j])) = Unquote(PieceKey(pieces[i])) ))
               => p[Unquote(PieceKey(pieces[i]))] = Unquote(PieceValue(pieces[i]))

\* C1: with a continuation token, the parameter set is exactly the pairs
\* decoded from the token's query: every entry comes from a pair of the token,
\* every non-blank pair of the token is an entry (the last one for its key),
\* and nothing computed from configuration or state is added.
C1_TokenOnly ==
    (Built /\ request_token # None) =>
        Eval(Split(request_token, "&"),
             LAMBDA pieces : FromPairs(params, pieces) /\ HoldsPairs(params, pieces))

\* A token without ordering or filter was followed although the
\* configuration computes both and adds a custom filter.
C1_Witness ==
    /\ Built /\ request_token = <<"%24skiptoken", "=", "2">>
    /\ Truthy(replication_key) /\ starting_value = <<"02:00Z">>
    /\ HasCustom(Filter)
    /\ DOMAIN params = {<<"$skiptoken">>}

\* C2 (as stated): on a first page with a replication key, a resolvable
\* stored bookmark bounds the filter, else a valid start_date does, and the
\* bound is that instant rendered in UTC; a malformed stored value does not
\* fall back to start_date.
C2_FilterBound ==
    (FirstPageBuilt /\ Truthy(replication_key)) =>
        /\ (starting_value # None /\ is_timestamp_replication_key /\ Parses(starting_value)) =>
               HasFloor(params) /\ FloorText(params) = UtcText(pendulum_parse(starting_value))
        /\ (starting_value = None /\ Parses(start_date)) =>
               HasFloor(params) /\ FloorText(params) = UtcText(pendulum_parse(start_date))
        /\ (starting_value # None /\ ~Parses(starting_value) /\ Truthy(start_date)
                /\ starting_value # start_date /\ HasFloor(params)) =>
               FloorText(params) # start_date

\* C4 (as stated): no stored bookmark and a start_date that does not parse:
\* the first page carries no replication filter.
C4_NoFloor ==
    (FirstPageBuilt /\ Truthy(replication_key) /\ starting_value = None
        /\ Truthy(start_date) /\ ~Parses(start_date)) =>
        ~HasFloor(params)

\* C5: on a first page, a computed replication filter R and one custom
\* $filter C give "(R) and (C)", and every other custom key holds its (last)
\* custom value.
C5_CustomMerge ==
    FirstPageBuilt =>
        LET lrd == last_run_date(starting_value, is_timestamp_replication_key, start_date)
            filters == {i \in 1..Len(CustomPieces) :
                            IsPair(CustomPieces[i]) /\ PieceKey(CustomPieces[i]) = Filter}
        IN  /\ (Truthy(replication_key) /\ Truthy(lrd) /\ Cardinality(filters) = 1) =>
                   /\ Filter \in DOMAIN params
                   /\ params[Filter] =
                          <<"(">> \o replication_key \o <<" ge ">> \o lrd
                          \o <<") and (">> \o LastCustom(Filter) \o <<")">>
            /\ \A i \in 1..Len(CustomPieces) :
                   (IsPair(CustomPieces[i]) /\ PieceKey(CustomPieces[i]) # Filter) =>
                       /\ PieceKey(CustomPieces[i]) \in DOMAIN params
                       /\ params[PieceKey(CustomPieces[i])] = LastCustom(PieceKey(CustomPieces[i]))

\* A first page that carries both filters and another custom key.
C5_Witness ==
    /\ FirstPageBuilt
    /\ custom_query_params = <<"$select", "=", "name", "&", "$filter", "=", "a", "=", "b">>
    /\ Filter \in DOMAIN params
    /\ Len(params[Filter]) = 9
    /\ <<"$select">> \in DOMAIN params

\* C10 (as stated): every first page of a stream with a replication key
\* asks for "<replication_key> asc", whatever the custom query_params.
C10_AlwaysAscending ==
    (FirstPageBuilt /\ Truthy(replication_key)) =>
        OrderBy \in DOMAIN params /\ params[OrderBy] = replication_key \o <<" asc">>

(***************************************************************************)
(* Properties of the sync pass                                             *)
(***************************************************************************)
RowSet(rows) == {rows[i] : i \in 1..Len(rows)}

Incremental == Truthy(replication_key)

\* The first-page parameters of a pass that starts from stored value v.
FirstPageParams(v) ==
    get_url_params(replication_key, is_timestamp_replication_key, start_date,
                   custom_query_params, v, None)

C6_AtLeastOnce ==
    (pc = "FETCH_FAILED" /\ Incremental /\ emitted # <<>>) =>
        /\ bookmark = KeyText(emitted[Len(emitted)])
        /\ ~BadRequest(FirstPageParams(bookmark))
        /\ \A id \in RowIds :
               (Selected(FirstPageParams(starting_value), id) /\ id \notin RowSet(emitted))
                   => Selected(FirstPageParams(bookmark), id)

\* C7 (as stated): the pass of an incremental stream after one ended by a
\* fetch failure emits no record the failed pass emitted.
C7_NoReprocessing ==
    (prev_outcome = "FETCH_FAILED" /\ Incremental) =>
        RowSet(emitted) \cap RowSet(prev_emitted) = {}

\* C7 (amended): the pass of an incremental stream after one ended by a fetch
\* failure emits again no record whose key is below the persisted bookmark;
\* the filter is inclusive, so records at the bookmark are emitted again.
C7_ReprocessesFromBookmark ==
    (prev_outcome = "FETCH_FAILED" /\ Incremental) =>
        \A id \in RowSet(emitted) \cap RowSet(prev_emitted) :
            /\ Parses(starting_value)
            /\ RemoteKeys[id] >= Instant(pendulum_parse(starting_value))

C7_Witness ==
    /\ prev_outcome = "FETCH_FAILED" /\ Incremental
    /\ Len(prev_emitted) = 2
    /\ pc = "DONE"
    /\ RowSet(emitted) \cap RowSet(prev_emitted) # {}
    /\ RowSet(prev_emitted) \ RowSet(emitted) # {}

\* When one bookmark value is not before another.
NotBefore(new, old) ==
    \/ new = old
    \/ /\ Parses(new) /\ Parses(old)
       /\ Instant(pendulum_parse(new)) >= Instant(pendulum_parse(old))

C9_StateInv ==
    /\ pc = "FIRST_PAGE" => next_page_token = None /\ fetches = 0
    /\ fetches = 1 => request_token = None /\ params = FirstPageParams(starting_value)
    /\ pc = "NEXT_PAGE" => next_page_token # None /\ next_page_token = response_token
    /\ pc = "DONE" => response_token = None /\ fetches >= 1
    /\ (fetches >= 2) =>
           /\ request_token # None
           /\ Eval(Split(request_token, "&"), LAMBDA pieces : FromPairs(params, pieces))
           /\ <<"$skiptoken">> \in DOMAIN params

C9_StepInv ==
    /\ (pc = "DONE" /\ runs' = runs) => (fetches' = fetches /\ pc' = "DONE")
    /\ (fetches' = fetches + 1) =>
           /\ request_token' = response_token
           /\ (fetches >= 1 => request_token' # request_token)
           /\ (~BadRequest(params') /\ ResponseRows(params', page_size) = <<>>) =>
                  (pc' \in {"EMITTING", "FETCH_FAILED"} /\ pending' = <<>>)
    /\ (pc = "EMITTING" /\ pending = <<>>) =>
           pc' = (IF response_token = None THEN "DONE" ELSE "NEXT_PAGE")

\* C9: pagination runs FIRST_PAGE -> NEXT_PAGE* -> DONE: the state and step
\* conditions above hold throughout, and every pass that is running ends.
C9_Pagination ==
    /\ C9_StateInv
    /\ [][C9_StepInv /\ C9_StateInv']_vars
    /\ (pc \in Running) ~> (pc \in Ended)

\* A pass of three requests reached DONE.
C9_Witness == pc = "DONE" /\ fetches = 3 /\ Len(emitted) = 3

\* A pass whose only response held no rows reached DONE.
C9_EmptyWitness ==
    pc = "DONE" /\ fetches = 1 /\ emitted = <<>> /\ starting_value = <<"04:00Z">>

====
